---- MODULE Spec2Model ----
(***************************************************************************)
(* Model of the drug/mixture graph of Schedule-1-Helper: Drug and DrugSet  *)
(* (src/model.py) and the derived-cost walk calc_cost (src/main.py).       *)
(* Python dicts are modelled as sequences of <<key, value>> pairs so that  *)
(* insertion order, which calc_cost observes, is part of the state.        *)
(***************************************************************************)
EXTENDS Integers, Sequences, FiniteSets, TLC

\* ---- bounds -------------------------------------------------------------
MaxCalls == 2      \* add_drug calls in one session
MaxValue == 1      \* drug values are drawn from 0..MaxValue
MaxIters == 3      \* iterations of calc_cost's while loop that are followed

Names  == {"A", "B", "C"}
Ings   == {"x", "y"}
Values == 0..MaxValue
Empty  == ""       \* the default of the base and ingredient parameters

\* ---- dict helpers (insertion-ordered mappings) ----------------------------
Keys(d) == {d[i][1] : i \in DOMAIN d}

Vals(d) == {d[i][2] : i \in DOMAIN d}

Get(d, k) == d[CHOOSE i \in DOMAIN d : d[i][1] = k][2]

\* d[k] = v : an existing key keeps its position, a new key goes last
DictSet(d, k, v) ==
    IF k \in Keys(d)
    THEN [i \in DOMAIN d |-> IF d[i][1] = k THEN <<k, v>> ELSE d[i]]
    ELSE Append(d, <<k, v>>)

\* self.drugs[k] = drug
Put(ds, k, drug) == [n \in (DOMAIN ds) \cup {k} |-> IF n = k THEN drug ELSE ds[n]]

\* ---- Drug -----------------------------------------------------------------
Drug(name, value) ==
    [name |-> name, value |-> value, mixed_with |-> <<>>, creates_with |-> <<>>]

is_base(drug) ==
    IF drug.mixed_with # <<>>
    THEN Len(drug.mixed_with) = 1 /\ drug.name \in Vals(drug.mixed_with)
    ELSE TRUE

\* ---- DrugSet.add_drug -----------------------------------------------------
\* "if base and ingredient": both strings are non-empty
paired(base, ingredient) == base # Empty /\ ingredient # Empty

\* "if value: self.drugs[name].value = value"
set_value_always(drug, value) == [drug EXCEPT !.value = value]

set_value_add(drug, value) == [drug EXCEPT !.value = @ + value]

set_value(drug, value) ==
    IF value # 0 THEN [drug EXCEPT !.value = value] ELSE drug

\* first half of add_drug: the drug called name
add_name(ds, name, value, base, ingredient) ==
    IF name \in DOMAIN ds
    THEN LET d1 == set_value(ds[name], value)
             d2 == IF paired(base, ingredient)
                   THEN [d1 EXCEPT !.mixed_with = DictSet(@, ingredient, base)]
                   ELSE d1
         IN  Put(ds, name, d2)
    ELSE LET d1 == Drug(name, value)
             d2 == IF paired(base, ingredient)
                   THEN [d1 EXCEPT !.mixed_with = DictSet(@, ingredient, base)]
                   ELSE d1
         IN  Put(ds, name, d2)

\* second half of add_drug: the inverse edge on the base
add_base_no_edge(ds, name, base, ingredient) ==
    IF paired(base, ingredient)
    THEN IF base \in DOMAIN ds
         THEN Put(ds, base, [ds[base] EXCEPT !.creates_with = DictSet(@, ingredient, name)])
         ELSE Put(ds, base, Drug(base, 0))
    ELSE ds

add_base(ds, name, base, ingredient) ==
    IF paired(base, ingredient)
    THEN IF base \in DOMAIN ds
         THEN Put(ds, base, [ds[base] EXCEPT !.creates_with = DictSet(@, ingredient, name)])
         ELSE Put(ds, base, [Drug(base, 0) EXCEPT !.creates_with = DictSet(@, ingredient, name)])
    ELSE ds

add_drug(ds, name, value, base, ingredient) ==
    add_base(add_name(ds, name, value, base, ingredient), name, base, ingredient)

\* ---- calc_cost ------------------------------------------------------------
\* positions of the entries the for loop does not skip (child != node.name)
others(node) == {i \in DOMAIN node.mixed_with : node.mixed_with[i][2] # node.name}

\* the entry at which the for loop breaks
first_other_last(node) == node.mixed_with[CHOOSE i \in others(node) : \A j \in others(node) : j <= i]

first_other(node) == node.mixed_with[CHOOSE i \in others(node) : \A j \in others(node) : i <= j]

\* ---- state ----------------------------------------------------------------
VARIABLES
    drugs,        \* DrugSet.drugs: name -> Drug
    ingredients,  \* DrugSet.ingredients: ingredient -> cost
    call,         \* the call being served (the last one made)
    result,       \* its outcome: a returned value, no value, or the exception raised
    pre,          \* drugs on entry to that call
    named,        \* the names passed as add_drug's name argument so far
    calls,        \* number of add_drug calls so far
    cc            \* the frame of calc_cost: pc, start, node, cost, and the drugs
                  \* the walk has left (visited) and the passes made (iters)

vars == <<drugs, ingredients, call, result, pre, named, calls, cc>>

NoDrugs == [n \in {} |-> Drug(n, 0)]

Idle == [pc |-> "idle", start |-> Empty, node |-> Empty, cost |-> 0, visited |-> {}, iters |-> 0]

\* outcomes of a call
Return(v) == [exc |-> "", none |-> FALSE, value |-> v]

ReturnNone == [exc |-> "", none |-> TRUE, value |-> 0]

Raise(e) == [exc |-> e, none |-> FALSE, value |-> 0]

\* the ingredients tables a snapshot file may hold: any part of a price list
Price == [i \in Ings |-> IF i = "x" THEN 1 ELSE 2]

IngredientTables == {[i \in S |-> Price[i]] : S \in SUBSET Ings}

\* main(): drug_set = DrugSet.load_from_file()
Init ==
    /\ drugs = NoDrugs
    /\ ingredients \in IngredientTables
    /\ call = [op |-> "none"]
    /\ result = ReturnNone
    /\ pre = NoDrugs
    /\ named = {}
    /\ calls = 0
    /\ cc = Idle

\* calc_cost runs to completion before the next command is read
Ready == cc.pc # "while"

AddDrug ==
    /\ Ready
    /\ calls < MaxCalls
    /\ \E name \in Names, value \in Values, base \in Names \cup {Empty}, ingredient \in Ings \cup {Empty} :
          /\ drugs' = add_drug(drugs, name, value, base, ingredient)
          /\ call' = [op |-> "add_drug", name |-> name, value |-> value,
                      base |-> base, ingredient |-> ingredient]
          /\ named' = named \cup {name}
    /\ pre' = drugs
    /\ result' = ReturnNone
    /\ calls' = calls + 1
    /\ cc' = Idle
    /\ UNCHANGED ingredients

\* self.ingridients is not an attribute of DrugSet: the read raises
SetIngredient ==
    /\ Ready
    /\ \E name \in Ings, value \in Values :
          call' = [op |-> "set_ingredient", name |-> name, value |-> value]
    /\ result' = Raise("AttributeError")
    /\ pre' = drugs
    /\ cc' = Idle
    /\ UNCHANGED <<drugs, ingredients, named, calls>>

GetIngredient ==
    /\ Ready
    /\ \E name \in Ings : call' = [op |-> "get_ingredient", name |-> name]
    /\ result' = Raise("AttributeError")
    /\ pre' = drugs
    /\ cc' = Idle
    /\ UNCHANGED <<drugs, ingredients, named, calls>>

\* render: calc_cost(drug_set, drug) for a drug of the set; cost = 0
CalcStart ==
    /\ Ready
    /\ \E d \in DOMAIN drugs :
          /\ call' = [op |-> "calc_cost", name |-> d]
          /\ cc' = [pc |-> "while", start |-> d, node |-> d, cost |-> 0,
                    visited |-> {}, iters |-> 0]
    /\ result' = ReturnNone
    /\ pre' = drugs
    /\ UNCHANGED <<drugs, ingredients, named, calls>>

\* the loop test fails: return cost + node.value
CalcReturn ==
    /\ cc.pc = "while"
    /\ is_base(drugs[cc.node])
    /\ cc' = [cc EXCEPT !.pc = "done"]
    /\ result' = Return(cc.cost + drugs[cc.node].value)
    /\ UNCHANGED <<drugs, ingredients, call, pre, named, calls>>

\* one pass of the while body
CalcIter ==
    /\ cc.pc = "while"
    /\ ~is_base(drugs[cc.node])
    /\ cc.iters < MaxIters
    /\ LET node == drugs[cc.node] IN
       IF others(node) = {}
       THEN \* the for loop ends without a break; the while test is made again
            /\ cc' = [cc EXCEPT !.iters = @ + 1]
            /\ UNCHANGED result
       ELSE LET ingredient == first_other(node)[1]
                child      == first_other(node)[2]
            IN  IF ingredient \notin DOMAIN ingredients \/ child \notin DOMAIN drugs
                THEN /\ cc' = [cc EXCEPT !.pc = "raised"]
                     /\ result' = Raise("KeyError")
                ELSE /\ cc' = [cc EXCEPT !.cost = @ + ingredients[ingredient],
                                         !.node = child,
                                         !.visited = @ \cup {cc.node},
                                         !.iters = @ + 1]
                     /\ UNCHANGED result
    /\ UNCHANGED <<drugs, ingredients, call, pre, named, calls>>

Next ==
    \/ AddDrug
    \/ SetIngredient
    \/ GetIngredient
    \/ CalcStart
    \/ CalcReturn
    \/ CalcIter

Spec == Init /\ [][Next]_vars

\* ---- properties -----------------------------------------------------------
IsAdd == call.op = "add_drug"

IsPaired == paired(call.base, call.ingredient)

\* C1: for every drug D and every (ingredient, base) entry of D.mixed_with,
\* drugs[base].creates_with[ingredient] is D's name, after every add_drug,
\* also when two drugs are recorded with the same base and ingredient.
C1_InverseProduct ==
    \A d \in DOMAIN drugs : \A i \in DOMAIN drugs[d].mixed_with :
        LET ingredient == drugs[d].mixed_with[i][1]
            base       == drugs[d].mixed_with[i][2]
        IN  /\ base \in DOMAIN drugs
            /\ ingredient \in Keys(drugs[base].creates_with)
            /\ Get(drugs[base].creates_with, ingredient) = d

\* C2: for every drug B and every (ingredient, product) entry of
\* B.creates_with, drugs[product].mixed_with[ingredient] is B's name; a recipe
\* re-recorded with another base leaves no entry on the previous base.
C2_InverseBase ==
    \A b \in DOMAIN drugs : \A i \in DOMAIN drugs[b].creates_with :
        LET ingredient == drugs[b].creates_with[i][1]
            product    == drugs[b].creates_with[i][2]
        IN  /\ product \in DOMAIN drugs
            /\ ingredient \in Keys(drugs[product].mixed_with)
            /\ Get(drugs[product].mixed_with, ingredient) = b

\* C3: when the walk of calc_cost comes back to a drug it has already left,
\* it has stopped with a cyclic-graph error: it never goes round again.
C3_CycleRaises ==
    cc.node \in cc.visited => cc.pc = "raised" /\ result.exc = "CyclicGraphError"

\* C4: add_drug with exactly one of base and ingredient non-empty fails with
\* InvalidArgument and leaves the DrugSet as it was before the call.
C4_UnpairedRejected ==
    (IsAdd /\ ((call.base = Empty) # (call.ingredient = Empty)))
        => /\ result.exc = "InvalidArgument"
           /\ drugs = pre

\* C5: the cost of an ingredient that is not in the ingredients table is 0 and
\* never an error, for get_ingredient and for the lookup made by calc_cost.
C5_DefaultIngredientCost ==
    /\ (call.op = "get_ingredient" /\ call.name \notin DOMAIN ingredients)
          => result = Return(0)
    /\ (call.op = "calc_cost") => result.exc = ""

\* C6: add_drug is idempotent: making the call just made once more, with the
\* same arguments, leaves drugs as the first call left it.
C6_Idempotent ==
    IsAdd => add_drug(drugs, call.name, call.value, call.base, call.ingredient) = drugs

C6_Witness ==
    /\ IsAdd /\ IsPaired
    /\ call.value = 0
    /\ call.name \notin DOMAIN pre
    /\ call.base \notin DOMAIN pre
    /\ pre # NoDrugs

\* C7: a drug that is in drugs only because it was named as a base has value 0
\* and an empty mixed_with; right after the call that creates it (base new and
\* different from name) its creates_with is exactly {ingredient: name}.
C7_AutoBase ==
    /\ \A b \in (DOMAIN drugs) \ named :
          drugs[b].value = 0 /\ drugs[b].mixed_with = <<>>
    /\ (IsAdd /\ IsPaired /\ call.base \notin DOMAIN pre /\ call.base # call.name)
          => drugs[call.base].creates_with = << <<call.ingredient, call.name>> >>

C7_Witness ==
    /\ IsAdd /\ IsPaired
    /\ call.base \notin DOMAIN pre
    /\ call.base # call.name
    /\ call.value # 0
    /\ \E b \in (DOMAIN pre) \ named : b # call.base

\* C8: add_drug sets the value of an existing name when value is non-zero and
\* keeps it when value is 0, creates a new name with the given value, and
\* leaves the value of every other drug unchanged.
C8_ValuePolicy ==
    IsAdd =>
        /\ call.name \in DOMAIN pre =>
              drugs[call.name].value =
                  IF call.value # 0 THEN call.value ELSE pre[call.name].value
        /\ call.name \notin DOMAIN pre => drugs[call.name].value = call.value
        /\ \A m \in (DOMAIN pre) \ {call.name} : drugs[m].value = pre[m].value

C8_Witness ==
    /\ IsAdd /\ IsPaired
    /\ call.value = 0
    /\ call.name \in DOMAIN pre
    /\ pre[call.name].value # 0
    /\ call.base \in DOMAIN pre
    /\ call.base # call.name

\* the chain of a drug as the claim words it: at each non-base drug, the first
\* entry of mixed_with, in insertion order, whose base is another drug
RECURSIVE Scan(_, _, _)
Scan(m, self, i) ==
    IF i > Len(m) THEN 0
    ELSE IF m[i][2] # self THEN i ELSE Scan(m, self, i + 1)

RECURSIVE Walk(_, _)
Walk(d, seen) ==
    IF d \in seen \/ d \notin DOMAIN drugs
    THEN [acyclic |-> FALSE, ings |-> <<>>, base |-> d]
    ELSE IF is_base(drugs[d])
    THEN [acyclic |-> TRUE, ings |-> <<>>, base |-> d]
    ELSE LET i == Scan(drugs[d].mixed_with, d, 1) IN
         IF i = 0
         THEN [acyclic |-> FALSE, ings |-> <<>>, base |-> d]
         ELSE LET r == Walk(drugs[d].mixed_with[i][2], seen \cup {d})
              IN  [acyclic |-> r.acyclic,
                   ings    |-> <<drugs[d].mixed_with[i][1]>> \o r.ings,
                   base    |-> r.base]

RECURSIVE SumCost(_)
SumCost(ings) ==
    IF ings = <<>> THEN 0 ELSE ingredients[Head(ings)] + SumCost(Tail(ings))

\* render: value_inc = drug.value - calc_cost(drug_set, drug)
value_inc == drugs[cc.start].value - result.value

C10_SelfRecipeIsBase ==
    \A d \in DOMAIN drugs :
        (drugs[d].mixed_with # <<>> /\ Vals(drugs[d].mixed_with) = {d}) =>
            /\ is_base(drugs[d])
            /\ (cc.pc # "idle" /\ cc.start = d) =>
                  cc.iters = 0 /\ (cc.pc = "done" => result = Return(drugs[d].value))
====
